---- MODULE Spec2Model ----
(***************************************************************************)
(* College event booking: the schema of the college_events database (its   *)
(* tables, column defaults, keys, sequences and before-insert triggers)    *)
(* and the admin event form that creates and edits events.  The booking    *)
(* operations that run against the schema (purchase, cancel, redeem,       *)
(* submit, review, and the service side of createEvent / updateEvent) are  *)
(* one database transaction each; their bodies follow the design document. *)
(***************************************************************************)
EXTENDS Integers, Sequences, FiniteSets, TLC

\* ------------------------------------------------------------------ bounds
MaxEvents  == 1   \* rows the events table may receive
MaxPending == 1   \* rows the pending_events table may receive
MaxTickets == 2   \* rows the tickets table may receive
MaxUsers   == 4   \* rows the users table may hold (three are seeded)

\* ------------------------------------------------------------- the schema
\* WHEN (NEW.id IS NULL): the id of an INSERT that names no id column.
NoId == 0

\* users.role ENUM and its DEFAULT.
Roles == {"admin", "student", "faculty"}
DefaultRole == "student"

\* Mutants of the pending_events.status DEFAULT: a wrong enum member.
DefaultPendingStatus_Approved == "approved"
DefaultPendingStatus_Rejected == "rejected"

\* pending_events.status ENUM and its DEFAULT.
PendingStatus == {"pending", "approved", "rejected"}
DefaultPendingStatus == "pending"

\* tickets.status ENUM and its DEFAULT.
TicketStatus == {"purchased", "used", "cancelled"}
DefaultTicketStatus == "purchased"

\* users.id INT AUTO_INCREMENT: the next value after counter n.
AUTO_INCREMENT(n) == n + 1

\* CREATE SEQUENCE ... START WITH 1 INCREMENT BY 1 NOCYCLE.  The state of a
\* sequence is the last value it issued, 0 before the first NEXTVAL.
SeqStart == 0
events_seq_NEXTVAL(s) == s + 1
pending_events_seq_NEXTVAL(s) == s + 1
tickets_seq_NEXTVAL(s) == s + 1

\* Mutants of the triggers: the WHEN condition inverted, so an insert that
\* names no id keeps none.
events_before_insert_Inverted(newId, nextval) ==
    IF newId # NoId THEN nextval ELSE newId
tickets_before_insert_Inverted(newId, nextval) ==
    IF newId # NoId THEN nextval ELSE newId

\* The before-insert triggers: WHEN (NEW.id IS NULL) the id is the
\* sequence's NEXTVAL, otherwise the id of the statement is kept.
events_before_insert(newId, nextval) == IF newId = NoId THEN nextval ELSE newId
pending_events_before_insert(newId, nextval) == IF newId = NoId THEN nextval ELSE newId
tickets_before_insert(newId, nextval) == IF newId = NoId THEN nextval ELSE newId

\* id ... PRIMARY KEY: an insert whose id is already a row's id is refused.
PrimaryKey(table, id) == id \notin DOMAIN table

\* FOREIGN KEY (...) REFERENCES t(id): the referenced row exists.
ForeignKey(table, id) == id \in DOMAIN table

\* ticket_code VARCHAR(50) NOT NULL UNIQUE.
UniqueTicketCode(tk, code) == \A t \in DOMAIN tk : tk[t].ticket_code # code

\* The users the seed script inserts (ids 1..3 from AUTO_INCREMENT).
SampleUsers == (1 :> [role |-> "admin"]) @@ (2 :> [role |-> "student"])
                 @@ (3 :> [role |-> "faculty"])

\* ------------------------------------------------------- the event form
\* A form number after z.coerce.number(): NaN, or a number kept in halves
\* so that a non-integer entry (1.5 is 3 halves) can be told from an integer.
NaN == [nan |-> TRUE, halves |-> 0]
Num(h) == [nan |-> FALSE, halves |-> h]
Whole(n) == Num(2 * n)
IsInt(v) == ~v.nan /\ v.halves % 2 = 0
IntOf(v) == v.halves \div 2

\* z.string().url(): the strings of the inputs that parse as a URL.
IsUrl(s) == s \in {"https://images.unsplash.com/photo-1470229722913-7c0e2dbbafd3"}

\* eventSchema, field by field.
TitleOk(d)       == Len(d.title) >= 5
DescriptionOk(d) == Len(d.description) >= 20
ImageUrlOk(d)    == IsUrl(d.image_url) \/ d.image_url = ""
DateOk(d)        == Len(d.date) >= 1
TimeStartOk(d)   == Len(d.time_start) >= 1
TimeEndOk(d)     == Len(d.time_end) >= 1
LocationOk(d)    == Len(d.location) >= 5
CategoryOk(d)    == Len(d.category) >= 1
PriceOk(d)       == ~d.price.nan /\ d.price.halves >= 0
TotalTicketsOk(d) == IsInt(d.total_tickets) /\ d.total_tickets.halves > 0

eventSchema(d) ==
    /\ TitleOk(d) /\ DescriptionOk(d) /\ ImageUrlOk(d) /\ DateOk(d)
    /\ TimeStartOk(d) /\ TimeEndOk(d) /\ LocationOk(d) /\ CategoryOk(d)
    /\ PriceOk(d) /\ TotalTicketsOk(d)

\* A TIME column value as minutes of the day ("" has none and reads as 0).
TimeOfDay(t) ==
    CASE t = "08:00" -> 8 * 60
      [] t = "09:00" -> 9 * 60
      [] t = "17:00" -> 17 * 60
      [] OTHER -> 0

\* The form's defaultValues with the required text filled in.
ValidForm ==
    [ title         |-> "Summer Music Festival",
      description   |-> "Annual college music festival",
      image_url     |-> "",
      date          |-> "2024-07-15",
      time_start    |-> "09:00",
      time_end      |-> "17:00",
      location      |-> "College Amphitheater",
      category      |-> "academic",
      price         |-> Whole(0),
      total_tickets |-> Whole(1) ]

\* The submissions tried: ValidForm and ValidForm with one field changed.
FormInputs ==
    { ValidForm,
      [ValidForm EXCEPT !.total_tickets = Whole(2)],
      [ValidForm EXCEPT !.total_tickets = Whole(0)],
      [ValidForm EXCEPT !.total_tickets = Whole(-1)],
      [ValidForm EXCEPT !.total_tickets = Num(3)],
      [ValidForm EXCEPT !.total_tickets = NaN],
      [ValidForm EXCEPT !.price = Whole(-1)],
      [ValidForm EXCEPT !.title = ""],
      [ValidForm EXCEPT !.description = "Music"],
      [ValidForm EXCEPT !.image_url = "banner"],
      [ValidForm EXCEPT !.date = ""],
      [ValidForm EXCEPT !.location = ""],
      [ValidForm EXCEPT !.category = ""],
      [ValidForm EXCEPT !.time_start = ""],
      [ValidForm EXCEPT !.time_end = ""],
      [ValidForm EXCEPT !.time_end = "08:00"] }

\* The columns of an events / pending_events row that the form data fills.
Columns(d) ==
    [ title         |-> d.title,
      location      |-> d.location,
      time_start    |-> d.time_start,
      time_end      |-> d.time_end,
      price         |-> d.price.halves,
      total_tickets |-> IntOf(d.total_tickets) ]

\* -------------------------------------------------------------- the state
VARIABLES
    users,               \* users table: id -> [role]
    users_auto,          \* users AUTO_INCREMENT counter (last id given)
    events,              \* events table: id -> row
    events_seq,          \* events_seq, last value issued
    pending_events,      \* pending_events table: id -> row
    pending_events_seq,  \* pending_events_seq, last value issued
    tickets,             \* tickets table: id -> row
    tickets_seq,         \* tickets_seq, last value issued
    origin,              \* event id -> the pending_events id it was approved from (NoId: none)
    last,                \* the last operation: [op, id, result]
    params,              \* useParams(): [id] of the mounted AdminEventForm
    auth,                \* useAuth(): the user the form is mounted for
    pc,                  \* where the form is: unmounted, ready, awaiting, settled, done
    isSubmitting,        \* useState(false): the isSubmitting flag
    request,             \* the eventsService call onSubmit awaits: [method, data]
    response,            \* how that call settled: none, ok, error
    calls,               \* the eventsService methods onSubmit has called since the mount
    navigated            \* the paths navigate() was called with since the mount

tableVars == << users, users_auto, events, events_seq, pending_events,
                pending_events_seq, tickets, tickets_seq, origin, last >>

formVars == << params, auth, pc, isSubmitting, request, response, calls,
               navigated >>

vars == << tableVars, formVars >>

Empty == [i \in {} |-> NoId]

Outcome(op, id, result) == [op |-> op, id |-> id, result |-> result]

Admins == {u \in DOMAIN users : users[u].role = "admin"}

\* A route parameter as JavaScript sees it: undefined, or a string.
Undefined == [present |-> FALSE, text |-> ""]
Param(s) == [present |-> TRUE, text |-> s]

\* !!v of a route parameter: undefined and "" are falsy.
Truthy(v) == v.present /\ v.text # ""

\* No eventsService call in flight.
NoRequest == [method |-> "none", data |-> ValidForm]

\* The component before it is mounted: isSubmitting starts false.
FormInit ==
    /\ params = [id |-> Undefined]
    /\ auth = 1
    /\ pc = "unmounted"
    /\ isSubmitting = FALSE
    /\ request = NoRequest
    /\ response = "none"
    /\ calls = {}
    /\ navigated = {}

\* The tables as the schema script creates them, with its sample users:
\* every operation needs a user row to refer to.  The catalog starts empty
\* (the script's three sample events are not loaded), so every event of a
\* run comes from createEvent or from an approval.
Init ==
    /\ users = SampleUsers
    /\ users_auto = 3
    /\ events = Empty
    /\ events_seq = SeqStart
    /\ pending_events = Empty
    /\ pending_events_seq = SeqStart
    /\ tickets = Empty
    /\ tickets_seq = SeqStart
    /\ origin = Empty
    /\ last = Outcome("init", NoId, "ok")
    /\ FormInit

\* ---------------------------------------------------------- the operations
\* A new user row; the id comes from AUTO_INCREMENT, the role from its DEFAULT.
RegisterUser ==
    /\ users_auto < MaxUsers
    /\ LET id == AUTO_INCREMENT(users_auto) IN
         /\ users_auto' = id
         /\ IF PrimaryKey(users, id)
              THEN /\ users' = (id :> [role |-> DefaultRole]) @@ users
                   /\ last' = Outcome("registerUser", id, "ok")
              ELSE /\ users' = users
                   /\ last' = Outcome("registerUser", id, "DuplicateKey")
    /\ UNCHANGED << events, events_seq, pending_events, pending_events_seq,
                    tickets, tickets_seq, origin >>

\* An events row for form data d: every unit of the new event is available.
NewEvent(d, organizer) ==
    Columns(d) @@ [ available_tickets |-> IntOf(d.total_tickets),
                    organizer_id      |-> organizer ]

\* The id the events trigger gives the next INSERT that names no id.
NextEventId == events_before_insert(NoId, events_seq_NEXTVAL(events_seq))

\* The keys of an events row admit it: a fresh id, an existing organizer.
EventKeysOk(row) ==
    PrimaryKey(events, NextEventId) /\ ForeignKey(users, row.organizer_id)

\* INSERT INTO events of `row`, naming no id: the trigger draws the id from
\* events_seq (a NEXTVAL is never given back), and the row is stored when
\* its keys admit it.  `from` is the pending_events id the row is approved
\* from (NoId for a direct creation).
InsertEvent(row, from) ==
    /\ events_seq' = events_seq_NEXTVAL(events_seq)
    /\ IF EventKeysOk(row)
         THEN /\ events' = (NextEventId :> row) @@ events
              /\ origin' = (NextEventId :> from) @@ origin
         ELSE UNCHANGED << events, origin >>

\* onSubmit without an id route parameter: the resolver lets the data
\* through only when eventSchema accepts it, then createEvent stores it.
CreateEvent(actor, d) ==
    /\ actor \in Admins
    /\ events_seq < MaxEvents
    /\ IF eventSchema(d)
         THEN /\ InsertEvent(NewEvent(d, actor), NoId)
              /\ last' = Outcome("createEvent", NextEventId,
                                 IF EventKeysOk(NewEvent(d, actor))
                                   THEN "ok" ELSE "DuplicateKey")
         ELSE /\ last' = Outcome("createEvent", NoId, "ValidationError")
              /\ UNCHANGED << events, events_seq, origin >>
    /\ UNCHANGED << users, users_auto, pending_events, pending_events_seq,
                    tickets, tickets_seq >>

\* The row of event e after updateEvent(e, d): the submitted columns are
\* written, last writer wins; the form carries no available_tickets.
UpdatedEvent(ev, d) ==
    Columns(d) @@ [ available_tickets |-> ev.available_tickets,
                    organizer_id      |-> ev.organizer_id ]

\* onSubmit with an id route parameter: updateEvent(id, data).
UpdateEvent(actor, e, d) ==
    /\ actor \in Admins
    /\ e \in DOMAIN events
    /\ IF eventSchema(d)
         THEN /\ events' = [events EXCEPT ![e] = UpdatedEvent(events[e], d)]
              /\ last' = Outcome("updateEvent", e, "ok")
         ELSE /\ events' = events
              /\ last' = Outcome("updateEvent", e, "ValidationError")
    /\ UNCHANGED << users, users_auto, events_seq, pending_events,
                    pending_events_seq, tickets, tickets_seq, origin >>

\* submit's shape checks: non-empty title and location, non-negative price,
\* positive ticket count, end time after start time.
ShapeChecks(d) ==
    /\ d.title # ""
    /\ d.location # ""
    /\ ~d.price.nan /\ d.price.halves >= 0
    /\ IsInt(d.total_tickets) /\ d.total_tickets.halves > 0
    /\ d.time_start # "" /\ d.time_end # ""
    /\ TimeOfDay(d.time_end) > TimeOfDay(d.time_start)

\* A pending_events row for proposal d; status takes the column DEFAULT.
NewPendingEvent(d, requester) ==
    Columns(d) @@ [ requester_id |-> requester,
                    status       |-> DefaultPendingStatus,
                    admin_notes  |-> "" ]

\* submit(requester_id, descriptive_fields, total_tickets).
Submit(requester, d) ==
    /\ requester \in DOMAIN users
    /\ pending_events_seq < MaxPending
    /\ IF ShapeChecks(d)
         THEN LET nextval == pending_events_seq_NEXTVAL(pending_events_seq)
                  id      == pending_events_before_insert(NoId, nextval)
              IN  /\ pending_events_seq' = nextval
                  /\ IF PrimaryKey(pending_events, id)
                       THEN /\ pending_events' =
                                 (id :> NewPendingEvent(d, requester)) @@ pending_events
                            /\ last' = Outcome("submit", id, "ok")
                       ELSE /\ pending_events' = pending_events
                            /\ last' = Outcome("submit", id, "DuplicateKey")
         ELSE /\ last' = Outcome("submit", NoId, "ValidationError")
              /\ UNCHANGED << pending_events, pending_events_seq >>
    /\ UNCHANGED << users, users_auto, events, events_seq, tickets,
                    tickets_seq, origin >>

\* Only a request still in `pending` may be reviewed.
Reviewable(p) == p.status = "pending"

\* The events row an approval creates: the request's columns, every unit
\* available, the reviewer as organizer.
ApprovedEvent(p, reviewer) ==
    [ title             |-> p.title,
      location          |-> p.location,
      time_start        |-> p.time_start,
      time_end          |-> p.time_end,
      price             |-> p.price,
      total_tickets     |-> p.total_tickets,
      available_tickets |-> p.total_tickets,
      organizer_id      |-> reviewer ]

\* review(pending_event_id, decision, reviewer_id, admin_notes).
Review(p, decision, reviewer, notes) ==
    /\ reviewer \in Admins
    /\ IF ~ForeignKey(pending_events, p)
         THEN /\ last' = Outcome("review", p, "NotFound")
              /\ UNCHANGED << pending_events, events, events_seq, origin >>
         ELSE IF ~Reviewable(pending_events[p])
         THEN /\ last' = Outcome("review", p, "InvalidStateTransition")
              /\ UNCHANGED << pending_events, events, events_seq, origin >>
         ELSE IF decision = "approve"
         THEN LET row == ApprovedEvent(pending_events[p], reviewer) IN
              /\ events_seq < MaxEvents
              /\ InsertEvent(row, p)
              /\ IF EventKeysOk(row)
                   THEN /\ pending_events' =
                             [pending_events EXCEPT ![p].status = "approved"]
                        /\ last' = Outcome("review", p, "ok")
                   ELSE /\ pending_events' = pending_events
                        /\ last' = Outcome("review", p, "DuplicateKey")
         ELSE /\ pending_events' = [pending_events EXCEPT ![p].status = "rejected",
                                                           ![p].admin_notes = notes]
              /\ last' = Outcome("review", p, "ok")
              /\ UNCHANGED << events, events_seq, origin >>
    /\ UNCHANGED << users, users_auto, pending_events_seq, tickets, tickets_seq >>

\* The code of the ticket with id `id` for event e: built from the
\* allocator value and the event id, so distinct ids give distinct codes.
TicketCode(id, e) == << e, id >>

\* Mutant of purchase's test: an off-by-one that sells at zero.
HasInventory_OffByOne(ev) == ev.available_tickets >= 0

\* purchase's test: a unit is left to sell.
HasInventory(ev) == ev.available_tickets > 0

\* A tickets row; status takes the column DEFAULT.
NewTicket(e, u, code) ==
    [ event_id |-> e, user_id |-> u, ticket_code |-> code,
      status |-> DefaultTicketStatus ]

\* purchase(event_id, user_id): one transaction that tests and decrements
\* the event's counter and inserts the ticket; a refused insert rolls the
\* decrement back (the NEXTVAL drawn is not given back).
Purchase(e, u) ==
    /\ IF ~ForeignKey(events, e) \/ ~ForeignKey(users, u)
         THEN /\ last' = Outcome("purchase", e, "NotFound")
              /\ UNCHANGED << events, tickets, tickets_seq >>
         ELSE IF ~HasInventory(events[e])
         THEN /\ last' = Outcome("purchase", e, "OutOfInventory")
              /\ UNCHANGED << events, tickets, tickets_seq >>
         ELSE LET nextval == tickets_seq_NEXTVAL(tickets_seq)
                  id      == tickets_before_insert(NoId, nextval)
                  code    == TicketCode(id, e)
              IN  /\ tickets_seq < MaxTickets
                  /\ tickets_seq' = nextval
                  /\ IF PrimaryKey(tickets, id) /\ UniqueTicketCode(tickets, code)
                       THEN /\ tickets' = (id :> NewTicket(e, u, code)) @@ tickets
                            /\ events' = [events EXCEPT ![e].available_tickets = @ - 1]
                            /\ last' = Outcome("purchase", e, "ok")
                       ELSE /\ UNCHANGED << events, tickets >>
                            /\ last' = Outcome("purchase", e, "DuplicateKey")
    /\ UNCHANGED << users, users_auto, events_seq, pending_events,
                    pending_events_seq, origin >>

\* Mutant of the ticket guard: only a cancelled ticket is refused.
Live_UsedToo(t) == t.status # "cancelled"

\* cancel and redeem apply only to a ticket still in `purchased`.
Live(t) == t.status = "purchased"

\* cancel(ticket_id): the ticket becomes cancelled and its event gets the
\* unit back, in one transaction.
Cancel(t) ==
    /\ IF ~ForeignKey(tickets, t)
         THEN /\ last' = Outcome("cancel", t, "NotFound")
              /\ UNCHANGED << events, tickets >>
         ELSE IF ~Live(tickets[t])
         THEN /\ last' = Outcome("cancel", t, "InvalidStateTransition")
              /\ UNCHANGED << events, tickets >>
         ELSE /\ tickets' = [tickets EXCEPT ![t].status = "cancelled"]
              /\ events' = [events EXCEPT
                               ![tickets[t].event_id].available_tickets = @ + 1]
              /\ last' = Outcome("cancel", t, "ok")
    /\ UNCHANGED << users, users_auto, events_seq, pending_events,
                    pending_events_seq, tickets_seq, origin >>

\* redeem(ticket_id): the ticket becomes used; the event is not touched.
Redeem(t) ==
    /\ IF ~ForeignKey(tickets, t)
         THEN /\ last' = Outcome("redeem", t, "NotFound")
              /\ tickets' = tickets
         ELSE IF ~Live(tickets[t])
         THEN /\ last' = Outcome("redeem", t, "InvalidStateTransition")
              /\ tickets' = tickets
         ELSE /\ tickets' = [tickets EXCEPT ![t].status = "used"]
              /\ last' = Outcome("redeem", t, "ok")
    /\ UNCHANGED << users, users_auto, events, events_seq, pending_events,
                    pending_events_seq, tickets_seq, origin >>

\* ------------------------------------------------------ the admin event form
\* The event a route id names: the row key the id string stands for, NoId
\* for a string that names none.
ParseId(text) ==
    CASE text = "1" -> 1
      [] text = "2" -> 2
      [] OTHER -> NoId

\* The values useParams() yields for id: none on the create route, the path
\* segment on the edit route (a path segment is never the empty string).
RouteIds == {Undefined, Param("1"), Param("2")}

\* const isEditMode = !!id
isEditMode_Negated == ~Truthy(params.id)

isEditMode == Truthy(params.id)

\* const { isAdmin } = useAuth()
isAdmin == auth \in Admins

\* The component is mounted for user u on a route with id p, and its effect
\* runs: a user who is no admin is sent to "/"; in edit mode the event is
\* fetched (the form is not rendered while loading), and a failed fetch
\* sends the user to "/admin"; otherwise the form is ready.
Mount(u, p) ==
    /\ pc \in {"unmounted", "done"}
    /\ UNCHANGED tableVars
    /\ auth' = u
    /\ params' = [id |-> p]
    /\ isSubmitting' = FALSE
    /\ request' = NoRequest
    /\ response' = "none"
    /\ calls' = {}
    /\ IF ~isAdmin'
       THEN navigated' = {"/"} /\ pc' = "unmounted"
       ELSE IF isEditMode' /\ ~ForeignKey(events, ParseId(p.text))
            THEN navigated' = {"/admin"} /\ pc' = "unmounted"
            ELSE navigated' = {} /\ pc' = "ready"

\* onSubmit up to its await: handleSubmit passes only data eventSchema
\* accepts, the submit button is disabled while isSubmitting, and a form that
\* navigated away after a success is gone.
OnSubmitStart(d) ==
    /\ pc = "ready" \/ (pc = "done" /\ response = "error")
    /\ ~isSubmitting
    /\ eventSchema(d)
    /\ isSubmitting' = TRUE
    /\ LET method == IF isEditMode THEN "updateEvent" ELSE "createEvent"
       IN  /\ request' = [method |-> method, data |-> d]
           /\ calls' = calls \cup {method}
    /\ response' = "none"
    /\ pc' = "awaiting"
    /\ UNCHANGED << params, auth, navigated, tableVars >>

\* The awaited call reaches the tables and its promise settles: fulfilled
\* when the operation succeeded, rejected when it failed.
ServiceResolves ==
    /\ pc = "awaiting"
    /\ IF request.method = "updateEvent"
       THEN UpdateEvent(auth, ParseId(params.id.text), request.data)
       ELSE CreateEvent(auth, request.data)
    /\ response' = IF last'.result = "ok" THEN "ok" ELSE "error"
    /\ pc' = "settled"
    /\ UNCHANGED << params, auth, isSubmitting, request, calls, navigated >>

\* The awaited call fails before it reaches the tables (the network, the
\* server): its promise is rejected.
ServiceRejects ==
    /\ pc = "awaiting"
    /\ last' = Outcome(request.method, NoId, "ServiceError")
    /\ response' = "error"
    /\ pc' = "settled"
    /\ UNCHANGED << users, users_auto, events, events_seq, pending_events,
                    pending_events_seq, tickets, tickets_seq, origin >>
    /\ UNCHANGED << params, auth, isSubmitting, request, calls, navigated >>

\* onSubmit after its await: navigate("/admin") on the try path, nothing but
\* a toast on the catch path, setIsSubmitting(false) in finally.
OnSubmitResume ==
    /\ pc = "settled"
    /\ navigated' = IF response = "ok" THEN navigated \cup {"/admin"}
                                       ELSE navigated
    /\ isSubmitting' = FALSE
    /\ pc' = "done"
    /\ UNCHANGED << params, auth, request, response, calls, tableVars >>

\* ------------------------------------------------------ the specification
Decisions == {"approve", "reject"}
Notes == {"", "insufficient venue capacity"}

\* The callers the operations are tried with.
Buyers == {2}
Requesters == {2}

\* The operations below are tried against the tables alone: the form stays
\* as it is.
Register == RegisterUser /\ UNCHANGED formVars

Create == \E a \in DOMAIN users, d \in FormInputs :
             CreateEvent(a, d) /\ UNCHANGED formVars

Update == \E a \in DOMAIN users, e \in DOMAIN events, d \in FormInputs :
             UpdateEvent(a, e, d) /\ UNCHANGED formVars

Buy == \E e \in 1..MaxEvents, u \in Buyers : Purchase(e, u) /\ UNCHANGED formVars

Pipeline ==
    \/ \E u \in Requesters, d \in FormInputs : Submit(u, d) /\ UNCHANGED formVars
    \/ \E p \in 1..MaxPending, c \in Decisions, r \in DOMAIN users, n \in Notes :
          Review(p, c, r, n) /\ UNCHANGED formVars

Booking ==
    \/ Buy
    \/ \E t \in 1..MaxTickets : Cancel(t) /\ UNCHANGED formVars
    \/ \E t \in 1..MaxTickets : Redeem(t) /\ UNCHANGED formVars

\* Every operation, in any order.
Next == Register \/ Create \/ Update \/ Pipeline \/ Booking

Spec == Init /\ [][Next]_vars

\* The catalog with the booking engine: the operations that read or write
\* events and tickets (Submit and Review of a request not yet approved leave
\* both tables as they are).
NextBooking == Create \/ Update \/ Booking

SpecBooking == Init /\ [][NextBooking]_vars

\* The catalog with the request pipeline: the operations that read or write
\* events and pending_events.
NextPipeline == Create \/ Update \/ Pipeline

SpecPipeline == Init /\ [][NextPipeline]_vars

\* The operations that insert rows, one or more per table.
NextInserts == Register \/ Create \/ Pipeline \/ Buy

SpecInserts == Init /\ [][NextInserts]_vars

\* The admin event form: mounted on the create or the edit route, submitted,
\* its call settled and onSubmit resumed.  A promise the service returns
\* settles, and the event loop runs the continuation of a settled await.
Settle == ServiceResolves \/ ServiceRejects

NextForm ==
    \/ \E u \in DOMAIN users, p \in RouteIds : Mount(u, p)
    \/ \E d \in FormInputs : OnSubmitStart(d)
    \/ ServiceResolves
    \/ ServiceRejects
    \/ OnSubmitResume

SpecForm ==
    Init /\ [][NextForm]_vars /\ WF_vars(Settle) /\ WF_vars(OnSubmitResume)

\* ------------------------------------------------------ helper vocabulary
EventTickets(e) == {t \in DOMAIN tickets : tickets[t].event_id = e}

\* The tickets of event e that hold a unit: purchased or used.
HoldingTickets(e) ==
    {t \in EventTickets(e) : tickets[t].status \in {"purchased", "used"}}

\* The events created by approving request p.
EventsFrom(p) == {e \in DOMAIN events : origin[e] = p}

\* ------------------------------------------------------------- the claims

\* C1: in every reachable state every Event has
\* 0 <= available_tickets <= total_tickets.
C1_InventoryBounds ==
    \A e \in DOMAIN events :
        /\ 0 <= events[e].available_tickets
        /\ events[e].available_tickets <= events[e].total_tickets

\* C2: a purchase tests available_tickets > 0 and decrements it by exactly 1
\* in one step: with a unit left it succeeds, takes exactly that unit and adds
\* one ticket; with none left (the loser of a race for the last unit) it fails
\* with OutOfInventory and leaves the events and the tickets unchanged.
C2_AtomicTestAndDecrement ==
    [][ (last'.op = "purchase" /\ last'.id \in DOMAIN events) =>
          LET e == last'.id IN
          IF events[e].available_tickets > 0
            THEN /\ last'.result = "ok"
                 /\ events'[e].available_tickets = events[e].available_tickets - 1
                 /\ \A f \in DOMAIN events \ {e} : events'[f] = events[f]
                 /\ Cardinality(DOMAIN tickets') = Cardinality(DOMAIN tickets) + 1
                 /\ \A t \in DOMAIN tickets : tickets'[t] = tickets[t]
            ELSE /\ last'.result = "OutOfInventory"
                 /\ events' = events
                 /\ tickets' = tickets
      ]_vars

\* C2 witness: two purchases raced for the last unit of an event; one holds
\* the ticket, the other has just failed with OutOfInventory.
C2_Witness ==
    /\ last.op = "purchase" /\ last.result = "OutOfInventory"
    /\ last.id \in DOMAIN events
    /\ events[last.id].available_tickets = 0
    /\ \E t \in EventTickets(last.id) : tickets[t].status = "purchased"

\* C3: no two tickets, of any status or event, share a ticket_code; every
\* purchase against an event with a unit left succeeds with a code no earlier
\* ticket has, so N purchases against N units give N distinct codes and leave
\* available_tickets at 0.
C3_DistinctCodes ==
    /\ [](\A t1, t2 \in DOMAIN tickets :
            t1 # t2 => tickets[t1].ticket_code # tickets[t2].ticket_code)
    /\ [][ (last'.op = "purchase" /\ last'.id \in DOMAIN events
              /\ events[last'.id].available_tickets > 0) =>
             /\ last'.result = "ok"
             /\ \E n \in DOMAIN tickets' \ DOMAIN tickets :
                   /\ DOMAIN tickets' = DOMAIN tickets \cup {n}
                   /\ tickets'[n].event_id = last'.id
                   /\ \A t \in DOMAIN tickets :
                         tickets[t].ticket_code # tickets'[n].ticket_code
             /\ events'[last'.id].available_tickets
                   = events[last'.id].available_tickets - 1
         ]_vars

\* C3 witness: an event with two units sold out by two purchases, the two
\* tickets carrying different codes.
C3_Witness ==
    \E e \in DOMAIN events :
        /\ events[e].total_tickets = 2
        /\ events[e].available_tickets = 0
        /\ \E t1, t2 \in EventTickets(e) :
              /\ t1 # t2
              /\ tickets[t1].status = "purchased" /\ tickets[t2].status = "purchased"
              /\ tickets[t1].ticket_code # tickets[t2].ticket_code

\* C4: for every Event, total_tickets - available_tickets is the number of
\* its tickets that are purchased or used.
C4_UnitsMatchTickets ==
    \A e \in DOMAIN events :
        events[e].total_tickets - events[e].available_tickets
            = Cardinality(HoldingTickets(e))

C6_TerminalReview ==
    [][ /\ \A p \in DOMAIN pending_events' \ DOMAIN pending_events :
              pending_events'[p].status = "pending"
        /\ \A p \in DOMAIN pending_events :
              pending_events[p].status \in {"approved", "rejected"} =>
                 /\ p \in DOMAIN pending_events'
                 /\ pending_events'[p] = pending_events[p]
        /\ (last'.op = "review" /\ last'.id \in DOMAIN pending_events
              /\ pending_events[last'.id].status # "pending") =>
                 /\ last'.result = "InvalidStateTransition"
                 /\ pending_events' = pending_events
                 /\ events' = events
      ]_vars

\* C6 witness: a rejected request, its notes kept, whose second review has
\* just failed.
C6_Witness ==
    /\ last.op = "review" /\ last.result = "InvalidStateTransition"
    /\ last.id \in DOMAIN pending_events
    /\ pending_events[last.id].status = "rejected"
    /\ pending_events[last.id].admin_notes = "insufficient venue capacity"

\* C7: a successful cancel sets the ticket to cancelled and adds exactly 1 to
\* its event's available_tickets in the same step, a second cancel of the
\* ticket credits nothing, and the sum never exceeds total_tickets.
C7_CancelCreditsWithinTotal ==
    [][ (last'.op = "cancel" /\ last'.id \in DOMAIN tickets) =>
          LET t == last'.id
              e == tickets[t].event_id
          IN  IF tickets[t].status = "purchased"
                THEN /\ tickets'[t].status = "cancelled"
                     /\ events'[e].available_tickets
                           = events[e].available_tickets + 1
                     /\ events'[e].available_tickets <= events'[e].total_tickets
                ELSE events' = events
      ]_vars

\* C8: used and cancelled are terminal: a cancel or redeem of a ticket that
\* is not purchased fails with InvalidStateTransition and changes no ticket
\* and no event; no step changes the status of a used or cancelled ticket.
C8_TerminalTickets ==
    [][ /\ (last'.op \in {"cancel", "redeem"} /\ last'.id \in DOMAIN tickets
              /\ tickets[last'.id].status # "purchased") =>
                 /\ last'.result = "InvalidStateTransition"
                 /\ tickets' = tickets
                 /\ events' = events
        /\ \A t \in DOMAIN tickets :
              tickets[t].status \in {"used", "cancelled"} =>
                 /\ t \in DOMAIN tickets'
                 /\ tickets'[t].status = tickets[t].status
      ]_vars

\* C8 witness: a cancel of a used ticket has just failed.
C8_Witness ==
    /\ last.op = "cancel" /\ last.result = "InvalidStateTransition"
    /\ last.id \in DOMAIN tickets
    /\ tickets[last.id].status = "used"

\* A step gives table rows `after` only ids above `counter`, the last id
\* given before it, keeps the rows of `before`, and never moves the counter
\* back.
Allocates(before, after, counter, counterAfter) ==
    /\ DOMAIN before \subseteq DOMAIN after
    /\ counterAfter >= counter
    /\ \A i \in DOMAIN after \ DOMAIN before : i > counter /\ i <= counterAfter

EndsAfterStart(row) == TimeOfDay(row.time_end) > TimeOfDay(row.time_start)

\* The shape a stored events or pending_events row must have.
WellShaped(row) ==
    /\ row.title # ""
    /\ row.location # ""
    /\ row.price >= 0
    /\ row.total_tickets > 0
    /\ EndsAfterStart(row)

\* C10: a proposal or creation whose fields fail the shape checks creates no
\* record: every stored row has a non-empty title and location, a
\* non-negative price, a positive total_tickets and an end time after its
\* start time.
C10_OnlyWellShapedRows ==
    /\ \A e \in DOMAIN events : WellShaped(events[e])
    /\ \A p \in DOMAIN pending_events : WellShaped(pending_events[p])

\* C11: every submission of the admin event form calls updateEvent and never
\* createEvent when the route has an id, and createEvent and never
\* updateEvent when it has none; once onSubmit has finished it has navigated
\* to /admin exactly when the call succeeded; and isSubmitting, set at the
\* start of every submission, is eventually false again, after a success and
\* after a failure.
Submitted == pc \in {"awaiting", "settled", "done"}

Dispatched ==
    LET method == IF params.id.present THEN "updateEvent" ELSE "createEvent"
    IN  Submitted => request.method = method /\ calls = {method}

Succeeded == pc \in {"settled", "done"} /\ last.result = "ok"

NavigatedOnSuccess ==
    /\ pc \in {"awaiting", "settled"} => "/admin" \notin navigated
    /\ pc \in {"settled", "done"} => (response = "ok" <=> Succeeded)
    /\ pc = "done" => ("/admin" \in navigated <=> Succeeded)

C11_SubmitDispatchesAndSettles ==
    /\ [](Dispatched /\ NavigatedOnSuccess)
    /\ [](pc \in {"awaiting", "settled"} => isSubmitting)
    /\ (pc = "awaiting" /\ isSubmitting) ~> (pc = "done" /\ ~isSubmitting)
    /\ isSubmitting ~> ~isSubmitting

C11_Witness ==
    /\ pc = "done"
    /\ params.id.present
    /\ calls = {"updateEvent"}
    /\ response = "ok"
    /\ "/admin" \in navigated
    /\ ~isSubmitting

\* The failure outcome: a rejected createEvent on the create route.
C11_FailureWitness ==
    /\ pc = "done"
    /\ ~params.id.present
    /\ calls = {"createEvent"}
    /\ response = "error"
    /\ "/admin" \notin navigated
    /\ ~isSubmitting

====
